---- MODULE Spec2Model ----
(***************************************************************************)
(* DID anchoring / resolution and verifiable-credential issue / verify of  *)
(* the web3 command line tool (cmd/web3 main.go, package did).             *)
(*                                                                         *)
(* Strings that the code inspects byte by byte (DID strings, the text of   *)
(* credentialSubject in a credential file) are sequences of one-character  *)
(* strings.  Keccak-256 and secp256k1 are idealised: a digest is the       *)
(* pre-image it was taken of, a signature is the pair (key, digest).       *)
(***************************************************************************)
EXTENDS Integers, Sequences, FiniteSets, TLC

VARIABLES registry, lastTx, store, clock, cr, regTxs, show, file, issue, cli

\* ------------------------------------------------------------------ bounds
\* The number of CreateDID invocations in one behaviour.
MaxCreates == 2
\* The number of CreateDID runs of the one user who also reads or verifies.
MaxAnchors == 1

\* ------------------------------------------------------------- constants
\* MaxDIDLength is the maximum size of the idstring of the GoChain DID.
MaxDIDLength == 32

\* ContextV1 is the required context for all DID documents.
ContextV1 == "https://w3id.org/did/v1"

Secp256k1 == "Secp256k1VerificationKey2018"

Min(a, b) == IF a < b THEN a ELSE b

\* A string of n copies of the character c.
Rep(c, n) == [i \in 1..n |-> c]

\* strings.Index from position `from`: the first i >= from with s[i] = c, 0 if none.
IndexFrom(s, c, from) ==
    IF \E i \in from..Len(s) : s[i] = c
    THEN CHOOSE i \in from..Len(s) : s[i] = c /\ \A j \in from..(i - 1) : s[j] # c
    ELSE 0

\* -------------------------------------------------------------- identifier
DIDScheme == <<"d", "i", "d", ":">>

NoDID == [ok |-> FALSE, Method |-> <<>>, ID |-> <<>>, Fragment |-> <<>>]

\* did.Parse: did:<method>:<id>[#<fragment>]; fails on a missing scheme, an
\* empty method or an empty id.
Parse(s) ==
    IF Len(s) < Len(DIDScheme) \/ SubSeq(s, 1, Len(DIDScheme)) # DIDScheme
    THEN NoDID
    ELSE LET colon == IndexFrom(s, ":", Len(DIDScheme) + 1)
             hash  == IndexFrom(s, "#", 1)
             last  == IF hash = 0 THEN Len(s) ELSE hash - 1
         IN  IF colon = 0 \/ colon = Len(DIDScheme) + 1 \/ colon >= last
             THEN NoDID
             ELSE [ok       |-> TRUE,
                   Method   |-> SubSeq(s, Len(DIDScheme) + 1, colon - 1),
                   ID       |-> SubSeq(s, colon + 1, last),
                   Fragment |-> IF hash = 0 THEN <<>> ELSE SubSeq(s, hash + 1, Len(s))]

\* (*DID).String: the inverse of Parse.
String(d) ==
    DIDScheme \o d.Method \o <<":">> \o d.ID
        \o (IF d.Fragment = <<>> THEN <<>> ELSE <<"#">> \o d.Fragment)

\* var idBytes32 [32]byte; copy(idBytes32[:], d.ID): the first 32 bytes of the
\* id, zero-padded.
Bytes32(id) == [i \in 1..MaxDIDLength |-> IF i <= Len(id) THEN id[i] ELSE "NUL"]

\* The identifiers given on the command line.
DidGo(id) == DIDScheme \o <<"g", "o", ":">> \o id
IdAbc  == <<"a", "b", "c">>
\* did:go:fff...  of exactly MaxDIDLength characters in all
IdFit  == Rep("f", MaxDIDLength - 7)
\* an id of at most 32 bytes whose DID string is longer than 32 characters
IdMid  == Rep("m", MaxDIDLength - 6)
\* ids longer than 32 bytes, equal in their first 32 bytes
IdLongX == Rep("a", MaxDIDLength) \o <<"x">>
IdLongY == Rep("a", MaxDIDLength) \o <<"y">>

DidOther == DIDScheme \o <<"x", "x", ":">> \o IdAbc

\* ----------------------------------------------------------------- keys
PrivateKeys == {"k1", "k2"}

\* crypto.FromECDSAPub: the uncompressed public key
FromECDSAPub(k) == <<"04", k>>
\* common.ToHex
ToHex(bytes) == <<"0x">> \o bytes
\* common.Hex2Bytes(strings.TrimPrefix(s, "0x"))
HexToBytes(s) == IF Len(s) > 0 /\ s[1] = "0x" THEN Tail(s) ELSE s
\* the account address of a key
Address(k) == <<"addr", k>>
NoAddress == <<>>

\* ------------------------------------------------------------- documents
NoTime == <<>>
\* time.Now(): a wall clock reading together with a monotonic clock reading
TimeNow(n) == <<[wall |-> n, mono |-> TRUE]>>

ZeroDocument ==
    [Context |-> "", ID |-> <<>>, PublicKeys |-> <<>>, Authentications |-> <<>>,
     Created |-> NoTime, Updated |-> NoTime]

\* did.NewDocument
NewDocument == [ZeroDocument EXCEPT !.Context = ContextV1]

OwnerFragment == <<"o", "w", "n", "e", "r">>

BuildDocumentWithoutAuthentication(d, k, now) ==
    [NewDocument EXCEPT
        !.ID = String(d),
        !.Created = now,
        !.Updated = now,
        !.PublicKeys = << [ID           |-> String([d EXCEPT !.Fragment = OwnerFragment]),
                           Type         |-> Secp256k1,
                           Controller   |-> String(d),
                           PublicKeyHex |-> ToHex(FromECDSAPub(k))] >>]

\* CreateDID, "Build DID identifier" and "Build DID document"
BuildDocument(d, k, now) ==
    LET publicKeyID == [d EXCEPT !.Fragment = OwnerFragment]
    IN  [NewDocument EXCEPT
            !.ID = String(d),
            !.Created = now,
            !.Updated = now,
            !.PublicKeys = << [ID           |-> String(publicKeyID),
                               Type         |-> Secp256k1,
                               Controller   |-> String(d),
                               PublicKeyHex |-> ToHex(FromECDSAPub(k))] >>,
            !.Authentications = << String(publicKeyID) >>]

\* Time.MarshalJSON keeps the wall clock reading only; a nil *time.Time is null.
TimeToJSON(t) == IF t = NoTime THEN <<>> ELSE <<t[1].wall>>
TimeFromJSON(j) == IF j = <<>> THEN NoTime ELSE <<[wall |-> j[1], mono |-> FALSE]>>

\* json.MarshalIndent(doc, "", "\t"): the bytes of a JSON object
MarshalDocument(doc) ==
    [kind |-> "json", extra |-> "none",
     obj  |-> [doc EXCEPT !.Created = TimeToJSON(doc.Created),
                          !.Updated = TimeToJSON(doc.Updated)]]

DecodeDocumentNoKeys(body) ==
    IF body.kind # "json"
    THEN [ok |-> FALSE, doc |-> ZeroDocument]
    ELSE [ok |-> TRUE,
          doc |-> [body.obj EXCEPT !.PublicKeys = <<>>,
                                   !.Created = TimeFromJSON(body.obj.Created),
                                   !.Updated = TimeFromJSON(body.obj.Updated)]]

\* json.NewDecoder(body).Decode(&doc): fields the object lacks stay zero,
\* members that are no field of did.Document are ignored.
DecodeDocument(body) ==
    IF body.kind # "json"
    THEN [ok |-> FALSE, doc |-> ZeroDocument]
    ELSE [ok |-> TRUE,
          doc |-> [body.obj EXCEPT !.Created = TimeFromJSON(body.obj.Created),
                                   !.Updated = TimeFromJSON(body.obj.Updated)]]

\* -------------------------------------------------------- content store
\* What the IPFS gateway answers when it does not serve content: a JSON error
\* object {"Message": ..., "Code": ..., "Type": "error"} or a body that is no JSON.
ErrorReply == [kind |-> "json", extra |-> "Message", obj |-> MarshalDocument(ZeroDocument).obj]
RawReply   == [kind |-> "raw", extra |-> "none", obj |-> MarshalDocument(ZeroDocument).obj]

\* The content hash: equal bytes, equal hash.  The empty string is no hash.
NoHash == <<>>
HashOf(data) == <<data>>

\* GET /api/v0/cat?arg=<hash>: the content when the store holds it, otherwise
\* one of the gateway's error bodies.
CatReplies(hash) ==
    IF hash # NoHash /\ hash[1] \in store THEN {hash[1]} ELSE {ErrorReply, RawReply}

\* ------------------------------------------------------------- registry
Ids32 == { Bytes32(IdAbc), Bytes32(IdFit), Bytes32(IdMid), Bytes32(IdLongX) }

NoEntry == [hash |-> NoHash, owner |-> NoAddress]

\* DIDRegistry.register(bytes32 id, string hash), once confirmed
Register(reg, id32, hash, sender) ==
    [reg EXCEPT ![id32] = [hash |-> hash, owner |-> sender]]

\* ------------------------------------------------------------- CreateDID
\* The invocations of CreateDID, numbered in the order they start; they run
\* concurrently, as processes of several users.
Procs == 1..MaxCreates

\* The command lines of CreateDID: registry address given, DID, private key
\* ("nokey" is a string web3.ParsePrivateKey rejects).
CreateInputs ==
    { <<TRUE, DidGo(IdAbc), "k1">>,
      <<TRUE, DidGo(IdAbc), "k2">>,
      <<TRUE, DidGo(IdFit), "k1">>,
      <<TRUE, DidGo(IdMid), "k1">>,
      <<TRUE, DidGo(IdLongX), "k1">>,
      <<TRUE, DidOther, "k1">>,
      <<TRUE, IdAbc, "k1">>,
      <<TRUE, <<>>, "k1">>,
      <<TRUE, DidGo(IdAbc), "nokey">>,
      <<FALSE, DidGo(IdAbc), "k1">> }

\* The command lines of the invocations that run at the same time.
ConcurrentInputs ==
    CreateInputs \ { <<TRUE, DidGo(IdFit), "k1">>, <<TRUE, <<>>, "k1">>,
                     <<FALSE, DidGo(IdAbc), "k1">> }

IdleCreate ==
    [pc |-> "idle", err |-> "", raw |-> <<>>, key |-> "nokey", doc |-> ZeroDocument,
     hash |-> NoHash, inv |-> 0, uploads |-> 0, reads |-> 0, writes |-> 0,
     ctx |-> "live"]

Fatal(c, msg) == [c EXCEPT !.pc = "fatal", !.err = msg]

MethodAny(d) == TRUE

\* "Only 'go' DID methods can be registered."
MethodAllowed(d) == d.Method = <<"g", "o">>

TooLongUnchecked(id) == FALSE

\* "ID must be less than 32 characters"
TooLong(id) == Len(id) > MaxDIDLength

\* CreateDID up to the first network call: the arguments are checked, the key is
\* parsed and the document is built.
CreateValidate(registryGiven, id, privateKey, inv, now) ==
    LET c == [IdleCreate EXCEPT !.raw = id, !.inv = inv]
        d == Parse(id)
    IN  IF ~registryGiven THEN Fatal(c, "Registry contract address required")
        ELSE IF id = <<>> THEN Fatal(c, "DID required")
        ELSE IF ~d.ok THEN Fatal(c, "Invalid DID")
        ELSE IF ~MethodAllowed(d) THEN Fatal(c, "Only 'go' DID methods can be registered.")
        ELSE IF TooLong(id) THEN Fatal(c, "ID must be less than 32 characters")
        ELSE IF privateKey \notin PrivateKeys THEN Fatal(c, "Cannot parse private key")
        ELSE [c EXCEPT !.pc = "built", !.key = privateKey,
                       !.doc = BuildDocument(d, privateKey, now)]

CreateStart(p) ==
    /\ cr[p].pc = "idle"
    /\ p = clock + 1
    /\ \E in \in ConcurrentInputs :
          cr' = [cr EXCEPT ![p] = CreateValidate(in[1], in[2], in[3], p, TimeNow(p))]
    /\ clock' = clock + 1
    /\ UNCHANGED <<registry, lastTx, store, regTxs, show, file, issue, cli>>

\* main: SIGINT or SIGTERM arrives while the invocation runs and the
\* goroutine of main calls cancelFn; the process goes on with ctx cancelled.
Interrupt(p) ==
    /\ cr[p].pc \in {"built", "uploaded", "submitted"}
    /\ cr[p].ctx = "live"
    /\ cr' = [cr EXCEPT ![p].ctx = "cancelled"]
    /\ UNCHANGED <<registry, lastTx, store, clock, regTxs, show, file, issue, cli>>

UploadErrorLogged(c) == [c EXCEPT !.pc = "uploaded", !.err = "IPFSUpload failed"]

\* hash, err := IPFSUpload(...); if err != nil { log.Fatal(err) }: the process
\* ends with the error of the upload.
UploadError(c) == Fatal(c, "IPFSUpload failed")

\* An upload that is tried again after an error.
CreateUploadRetrying(p) ==
    /\ cr[p].pc = "built"
    /\ LET data == MarshalDocument(cr[p].doc)
           c    == [cr[p] EXCEPT !.uploads = @ + 1]
       IN  \/ /\ cr' = [cr EXCEPT ![p] = c]
              /\ store' = store
           \/ /\ cr' = [cr EXCEPT ![p] = [c EXCEPT !.pc = "uploaded", !.hash = NoHash]]
              /\ store' = store
           \/ /\ cr' = [cr EXCEPT ![p] = [c EXCEPT !.pc = "uploaded", !.hash = HashOf(data)]]
              /\ store' = store \cup {data}
    /\ UNCHANGED <<registry, lastTx, clock, regTxs, show, file, issue, cli>>

\* IPFSUpload: an error (the POST fails or the reply is no JSON), or the reply
\* is a JSON object whose Hash member is returned (empty when it carries none).
\* http.Post is not given ctx.
CreateUpload(p) ==
    /\ cr[p].pc = "built"
    /\ LET data == MarshalDocument(cr[p].doc)
           c    == [cr[p] EXCEPT !.uploads = @ + 1]
       IN  \/ /\ cr' = [cr EXCEPT ![p] = UploadError(c)]
              /\ store' = store
           \/ /\ cr' = [cr EXCEPT ![p] = [c EXCEPT !.pc = "uploaded", !.hash = NoHash]]
              /\ store' = store
           \/ /\ cr' = [cr EXCEPT ![p] = [c EXCEPT !.pc = "uploaded", !.hash = HashOf(data)]]
              /\ store' = store \cup {data}
    /\ UNCHANGED <<registry, lastTx, clock, regTxs, show, file, issue, cli>>

RegisterTxOfEmptyDocument(c) ==
    LET d == Parse(c.raw)
    IN  [inv |-> c.inv, method |-> d.Method, doc |-> c.doc,
         id32 |-> Bytes32(d.ID), hash |-> HashOf(MarshalDocument(NewDocument)),
         sender |-> Address(c.key), status |-> "pending"]

\* The register transaction as submitted by web3.CallTransactFunction
\* (inv, method and doc record the invocation that submitted it).
RegisterTx(c) ==
    LET d == Parse(c.raw)
    IN  [inv |-> c.inv, method |-> d.Method, doc |-> c.doc,
         id32 |-> Bytes32(d.ID), hash |-> c.hash, sender |-> Address(c.key),
         status |-> "pending"]

NoTx ==
    [inv |-> 0, method |-> <<>>, doc |-> ZeroDocument, id32 |-> Bytes32(<<>>),
     hash |-> NoHash, sender |-> NoAddress, status |-> "none"]

\* A submission that reports an error although the transaction was sent.
CreateTransactErrorAfterSend(p) ==
    /\ cr[p].pc = "uploaded"
    /\ \/ /\ cr' = [cr EXCEPT ![p] = Fatal(cr[p], "Failed to connect")]
          /\ regTxs' = regTxs
       \/ /\ cr' = [cr EXCEPT ![p] = Fatal([cr[p] EXCEPT !.writes = @ + 1],
                                           "Cannot register DID identifier")]
          /\ regTxs' = [regTxs EXCEPT ![p] = RegisterTx(cr[p])]
       \/ /\ cr[p].ctx = "live"
          /\ cr' = [cr EXCEPT ![p] = [@ EXCEPT !.pc = "submitted", !.writes = @ + 1]]
          /\ regTxs' = [regTxs EXCEPT ![p] = RegisterTx(cr[p])]
    /\ UNCHANGED <<registry, lastTx, store, clock, show, file, issue, cli>>

\* web3.Dial, abi.JSON and web3.CallTransactFunction(ctx, ..., "register", 0,
\* idBytes32, hash), which fails when ctx is cancelled.
CreateTransact(p) ==
    /\ cr[p].pc = "uploaded"
    /\ \/ /\ cr' = [cr EXCEPT ![p] = Fatal(cr[p], "Failed to connect")]
          /\ regTxs' = regTxs
       \/ /\ cr' = [cr EXCEPT ![p] = Fatal([cr[p] EXCEPT !.writes = @ + 1],
                                           "Cannot register DID identifier")]
          /\ regTxs' = regTxs
       \/ /\ cr[p].ctx = "live"
          /\ cr' = [cr EXCEPT ![p] = [@ EXCEPT !.pc = "submitted", !.writes = @ + 1]]
          /\ regTxs' = [regTxs EXCEPT ![p] = RegisterTx(cr[p])]
    /\ UNCHANGED <<registry, lastTx, store, clock, show, file, issue, cli>>

\* The ledger confirms a pending transaction: the contract stores the hash and
\* the sender, or the transaction is reverted.  lastTx records which
\* transaction was the last one confirmed for an id.
TxMine(i) ==
    /\ regTxs[i].status = "pending"
    /\ \/ /\ regTxs' = [regTxs EXCEPT ![i].status = "ok"]
          /\ registry' = Register(registry, regTxs[i].id32, regTxs[i].hash, regTxs[i].sender)
          /\ lastTx' = [lastTx EXCEPT ![regTxs[i].id32] = i]
       \/ /\ regTxs' = [regTxs EXCEPT ![i].status = "reverted"]
          /\ UNCHANGED <<registry, lastTx>>
    /\ UNCHANGED <<store, clock, cr, show, file, issue, cli>>

ReceiptAssumed(tx) == TRUE

\* receipt, err := web3.WaitForReceipt(ctx, client, tx.Hash) returns the
\* receipt (err == nil) of a transaction that is confirmed.
HasReceipt(tx) == tx.status # "pending"

\* ctx, _ = context.WithTimeout(ctx, 10*time.Second); web3.WaitForReceipt: the
\* receipt of the transaction once it is confirmed, an error when the context
\* ends first.
CreateWait(p) ==
    /\ cr[p].pc = "submitted"
    /\ \/ /\ HasReceipt(regTxs[p])
          /\ cr' = [cr EXCEPT ![p].pc = "done"]
       \/ /\ ~HasReceipt(regTxs[p]) \/ cr[p].ctx = "cancelled"
          /\ cr' = [cr EXCEPT ![p] = Fatal(@, "Cannot get the receipt")]
    /\ UNCHANGED <<registry, lastTx, store, clock, regTxs, show, file, issue, cli>>

\* ------------------------------------------------------------ resolution
Lookup(id32) == IF id32 \in DOMAIN registry THEN registry[id32] ELSE NoEntry

NoRead ==
    [err |-> "", doc |-> ZeroDocument, hash |-> NoHash, owner |-> NoAddress,
     reads |-> 0, fetches |-> 0]

ReadError(r, msg) == [r EXCEPT !.err = msg]

\* What http.Get does with the hash the registry returned.
FetchHash(r) == [r EXCEPT !.fetches = @ + 1]

\* readDIDDocument.  net is the fate of the network calls: "ok", or the call
\* that fails; body is the reply of the content store.
ReadDIDDocument(registryGiven, id, net, body) ==
    LET d == Parse(id)
        h == [NoRead EXCEPT !.hash = Lookup(Bytes32(d.ID)).hash, !.reads = 1]
        g == FetchHash(h)
        j == DecodeDocument(body)
    IN  IF ~registryGiven THEN ReadError(NoRead, "Registry contract address required")
        ELSE IF ~d.ok THEN ReadError(NoRead, "Invalid DID")
        ELSE IF net = "dial" THEN ReadError(NoRead, "Failed to connect")
        ELSE IF net = "call" THEN ReadError([NoRead EXCEPT !.reads = 1], "Cannot call the contract")
        ELSE IF net = "get" THEN ReadError(g, "Unable to fetch DID document from IPFS")
        ELSE IF ~j.ok THEN ReadError(g, "Unable to decode DID document")
        ELSE [g EXCEPT !.doc = j.doc]

NetFates == {"ok", "dial", "call", "get"}

\* The identifiers given to the read-only commands.
ReadInputs ==
    { DidGo(IdAbc), DidGo(IdFit), DidGo(IdLongX), DidGo(IdLongY),
      DidGo(IdAbc) \o <<"#", "k">>, DidOther, IdAbc }

\* The runs of the read-only commands: registry address given, DID, fate of
\* the network calls.
ReadCalls ==
    { <<TRUE, id, "ok">> : id \in ReadInputs }
        \cup { <<TRUE, DidGo(IdAbc), net>> : net \in NetFates }
        \cup { <<FALSE, DidGo(IdAbc), "ok">> }

NoShow == [cmd |-> "none", raw |-> <<>>, out |-> NoRead]

\* ShowDID: the document read is printed, an error ends the process.
ShowDID ==
    /\ \E in \in ReadCalls :
          \E body \in CatReplies(Lookup(Bytes32(Parse(in[2]).ID)).hash) :
             show' = [cmd |-> "show", raw |-> in[2],
                      out |-> ReadDIDDocument(in[1], in[2], in[3], body)]
    /\ UNCHANGED <<registry, lastTx, store, clock, cr, regTxs, file, issue, cli>>

\* DIDOwner and DIDHash: one constant call of the registry contract.
ReadRegistry(registryGiven, id, net, function) ==
    LET d == Parse(id)
        e == Lookup(Bytes32(d.ID))
    IN  IF ~registryGiven THEN ReadError(NoRead, "Registry contract address required")
        ELSE IF ~d.ok THEN ReadError(NoRead, "Invalid DID")
        ELSE IF net = "dial" THEN ReadError(NoRead, "Failed to connect")
        ELSE IF net = "call" THEN ReadError([NoRead EXCEPT !.reads = 1], "Cannot call the contract")
        ELSE IF function = "owner" THEN [NoRead EXCEPT !.owner = e.owner, !.reads = 1]
        ELSE [NoRead EXCEPT !.hash = e.hash, !.reads = 1]

DIDOwner ==
    /\ \E in \in ReadCalls :
          /\ in[3] # "get"
          /\ show' = [cmd |-> "owner", raw |-> in[2],
                      out |-> ReadRegistry(in[1], in[2], in[3], "owner")]
    /\ UNCHANGED <<registry, lastTx, store, clock, cr, regTxs, file, issue, cli>>

DIDHash ==
    /\ \E in \in ReadCalls :
          /\ in[3] # "get"
          /\ show' = [cmd |-> "hash", raw |-> in[2],
                      out |-> ReadRegistry(in[1], in[2], in[3], "hash")]
    /\ UNCHANGED <<registry, lastTx, store, clock, cr, regTxs, file, issue, cli>>

\* ------------------------------------------- sequential use of the tool
\* A run of CreateDID from start to end with no other command in between, in
\* which every call succeeded and the transaction was confirmed; the content
\* store answered with the hash of the content or with an object without one.
CreateDIDRun(inputs) ==
    /\ clock < MaxAnchors
    /\ \E in \in inputs, replyHasHash \in BOOLEAN :
          LET c    == CreateValidate(in[1], in[2], in[3], clock + 1, TimeNow(clock + 1))
              data == MarshalDocument(c.doc)
              tx   == RegisterTx([c EXCEPT !.hash = IF replyHasHash THEN HashOf(data) ELSE NoHash])
          IN  /\ c.pc = "built"
              /\ store' = IF replyHasHash THEN store \cup {data} ELSE store
              /\ registry' = Register(registry, tx.id32, tx.hash, tx.sender)
              /\ lastTx' = [lastTx EXCEPT ![tx.id32] = clock + 1]
              /\ regTxs' = [regTxs EXCEPT ![clock + 1] = [tx EXCEPT !.status = "ok"]]
    /\ clock' = clock + 1
    /\ UNCHANGED <<cr, show, file, issue, cli>>

\* ----------------------------------------------- credentialSubject as JSON
\* The text of a JSON object is a sequence of bytes.  A few runs of bytes are
\* kept as one token: the names "id" and "name", a DID inside a string, and the
\* line break with its indentation.
Hex == {"0", "3", "c", "C"}
Lower(h) == IF h = "C" THEN "c" ELSE h
Whitespace == {" ", "nl-tab", "nl-space"}

\* A decoded character: its code point when an escape of the text can denote
\* it, the byte itself otherwise.
CodePoint(a, b, c, d) == <<"U+", Lower(a), Lower(b), Lower(c), Lower(d)>>
CharOf(byte) ==
    CASE byte = "<" -> CodePoint("0", "0", "3", "c")
      [] byte = "0" -> CodePoint("0", "0", "3", "0")
      [] byte = "3" -> CodePoint("0", "0", "3", "3")
      [] OTHER      -> <<"byte", byte>>

StringOf(bytes) == [i \in 1..Len(bytes) |-> CharOf(bytes[i])]

NoParse == [ok |-> FALSE, val |-> <<>>, next |-> 0]

\* The first position at or after i that holds no whitespace.
SkipSpace(t, i) ==
    IF \E j \in i..Len(t) : t[j] \notin Whitespace
    THEN CHOOSE j \in i..Len(t) :
            t[j] \notin Whitespace /\ \A k \in i..(j - 1) : t[k] \in Whitespace
    ELSE Len(t) + 1

\* encoding/json, a string literal after its opening quote: \uXXXX, \" and \\
\* are the escapes of these bytes, a raw line break is an error.
RECURSIVE StringBody(_, _, _)
StringBody(t, i, acc) ==
    IF i > Len(t) THEN NoParse
    ELSE IF t[i] = "\"" THEN [ok |-> TRUE, val |-> acc, next |-> i + 1]
    ELSE IF t[i] \in {"nl-tab", "nl-space"} THEN NoParse
    ELSE IF t[i] = "\\"
         THEN IF i + 5 <= Len(t) /\ t[i + 1] = "u" /\ \A k \in 2..5 : t[i + k] \in Hex
              THEN StringBody(t, i + 6,
                       Append(acc, CodePoint(t[i + 2], t[i + 3], t[i + 4], t[i + 5])))
              ELSE IF i + 1 <= Len(t) /\ t[i + 1] \in {"\"", "\\"}
                   THEN StringBody(t, i + 2, Append(acc, CharOf(t[i + 1])))
                   ELSE NoParse
    ELSE StringBody(t, i + 1, Append(acc, CharOf(t[i])))

StringLiteral(t, i) ==
    IF i <= Len(t) /\ t[i] = "\"" THEN StringBody(t, i + 1, <<>>) ELSE NoParse

\* The number literals of the texts, each one token; json.Unmarshal into
\* interface{} holds a number as float64.
Numbers == {"21"}
Float64(tok) == <<"float64", tok>>

\* A string as a value of interface{}.
JSONString(chars) == <<"string", chars>>

\* A value: a string or a number.
Value(t, i) ==
    LET s == StringLiteral(t, i)
    IN  IF i <= Len(t) /\ t[i] \in Numbers
        THEN [ok |-> TRUE, val |-> Float64(t[i]), next |-> i + 1]
        ELSE [s EXCEPT !.val = JSONString(@)]

EmptyMap == [k \in {} |-> <<>>]
Put(m, k, v) == [x \in DOMAIN m \cup {k} |-> IF x = k THEN v ELSE m[x]]
Delete(m, k) == [x \in DOMAIN m \ {k} |-> m[x]]

NoObject == [ok |-> FALSE, map |-> EmptyMap]

\* The members of an object from position i on (a later member of the same name
\* replaces the earlier one); the object must end the text.
RECURSIVE Members(_, _, _)
Members(t, i, m) ==
    LET k == StringLiteral(t, i)
        c == SkipSpace(t, k.next)
        v == Value(t, SkipSpace(t, c + 1))
        e == SkipSpace(t, v.next)
    IN  IF ~k.ok \/ c > Len(t) THEN NoObject
        ELSE IF t[c] # ":" \/ ~v.ok \/ e > Len(t) THEN NoObject
        ELSE IF t[e] = "}"
             THEN IF SkipSpace(t, e + 1) > Len(t)
                  THEN [ok |-> TRUE, map |-> Put(m, k.val, v.val)]
                  ELSE NoObject
        ELSE IF t[e] = ","
             THEN Members(t, SkipSpace(t, e + 1), Put(m, k.val, v.val))
        ELSE NoObject

\* json.Unmarshal into map[string]interface{} of an object whose values are
\* strings and numbers.
UnmarshalObject(t) ==
    LET o == SkipSpace(t, 1)
        f == SkipSpace(t, o + 1)
    IN  IF o > Len(t) THEN NoObject
        ELSE IF t[o] # "{" \/ f > Len(t) THEN NoObject
        ELSE IF t[f] = "}"
             THEN IF SkipSpace(t, f + 1) > Len(t) THEN [ok |-> TRUE, map |-> EmptyMap]
                  ELSE NoObject
        ELSE Members(t, f, EmptyMap)

\* encoding/json writing one character of a string: <, > and & are written as
\* \u00XX, a quote and a backslash are escaped, the rest is written as it is.
EncodeChar(ch) ==
    IF ch = CharOf("<") THEN <<"\\", "u", "0", "0", "3", "c">>
    ELSE IF ch = CharOf("0") THEN <<"0">>
    ELSE IF ch = CharOf("3") THEN <<"3">>
    ELSE IF ch[1] = "byte"
         THEN IF ch[2] \in {"\"", "\\"} THEN <<"\\", ch[2]>> ELSE <<ch[2]>>
    ELSE <<"utf-8">> \o Tail(ch)

RECURSIVE Concat(_)
Concat(ss) == IF ss = <<>> THEN <<>> ELSE Head(ss) \o Concat(Tail(ss))

\* The string literal encoding/json writes for a string.
EncodeString(s) == <<"\"">> \o Concat([i \in 1..Len(s) |-> EncodeChar(s[i])]) \o <<"\"">>

\* A float64 is written as the shortest decimal that denotes it.
EncodeValue(v) ==
    IF v[1] = "float64" THEN <<v[2]>> ELSE EncodeString(v[2])

\* The names of a map in the sorted order encoding/json writes them in.
KeyOrder == << StringOf(<<"age">>), StringOf(<<"id">>), StringOf(<<"name">>) >>
RECURSIVE SortedKeys(_, _)
SortedKeys(m, i) ==
    IF i > Len(KeyOrder) THEN <<>>
    ELSE (IF KeyOrder[i] \in DOMAIN m THEN <<KeyOrder[i]>> ELSE <<>>) \o SortedKeys(m, i + 1)

\* json.Marshal of the map: the members sorted by name, no whitespace.
RECURSIVE EncodeMembers(_, _, _, _)
EncodeMembers(m, keys, lead, colon) ==
    IF keys = <<>> THEN <<>>
    ELSE lead \o EncodeString(Head(keys)) \o colon \o EncodeValue(m[Head(keys)])
            \o (IF Len(keys) > 1 THEN <<",">> ELSE <<>>)
            \o EncodeMembers(m, Tail(keys), lead, colon)

\* json.NewEncoder(w).Encode writes the object compactly.
EncodeObject(m) ==
    <<"{">> \o EncodeMembers(m, SortedKeys(m, 1), <<>>, <<":">>) \o <<"}">>

\* json.MarshalIndent(v, "", "\t") writes each member on a line of its own.
EncodeObjectIndent(m) ==
    IF DOMAIN m = {} THEN <<"{", "}">>
    ELSE <<"{">> \o EncodeMembers(m, SortedKeys(m, 1), <<"nl-tab">>, <<":", " ">>)
            \o <<"nl-tab", "}">>

\* ---------------------------------------------------------- credentials
NoProof == <<>>
NoCredential ==
    [ID |-> "", Type |-> <<>>, Issuer |-> <<>>, IssuanceDate |-> NoTime,
     CredentialSubject |-> EmptyMap, Proof |-> NoProof]

\* vc.NewVerifiableCredential
NewVerifiableCredential == [NoCredential EXCEPT !.Type = <<"VerifiableCredential">>]

\* The JSON object of a credential; credentialSubject is kept as text.
CredentialJSON(cred, subjectText) ==
    [id |-> cred.ID, type |-> cred.Type, issuer |-> cred.Issuer,
     issuanceDate |-> TimeToJSON(cred.IssuanceDate),
     credentialSubject |-> subjectText,
     proof |-> IF cred.Proof = NoProof THEN NoProof
               ELSE << [type |-> cred.Proof[1].Type,
                        created |-> TimeToJSON(cred.Proof[1].Created),
                        proofValue |-> cred.Proof[1].ProofValue] >>]

\* json.NewEncoder(hw).Encode(cred)
EncodeCredential(cred) == CredentialJSON(cred, EncodeObject(cred.CredentialSubject))

\* json.MarshalIndent(cred, "", "\t")
MarshalCredentialIndent(cred) ==
    CredentialJSON(cred, EncodeObjectIndent(cred.CredentialSubject))

\* json.Unmarshal(buf, &cred)
UnmarshalCredential(j) ==
    LET o == UnmarshalObject(j.credentialSubject)
    IN  [ok |-> o.ok,
         cred |-> IF ~o.ok THEN NoCredential
                  ELSE [ID |-> j.id, Type |-> j.type, Issuer |-> j.issuer,
                        IssuanceDate |-> TimeFromJSON(j.issuanceDate),
                        CredentialSubject |-> o.map,
                        Proof |-> IF j.proof = NoProof THEN NoProof
                                  ELSE << [Type |-> j.proof[1].type,
                                           Created |-> TimeFromJSON(j.proof[1].created),
                                           ProofValue |-> j.proof[1].proofValue] >>]]

\* sha3.NewLegacyKeccak256 over the bytes written: equal digests, equal bytes.
Keccak256(bytes) == [keccak |-> bytes]

\* crypto.Sign: the signature R || S of the digest under the key, followed by V.
Sign(h, k) == [rs |-> [key |-> k, h |-> h], v |-> "V"]
\* proofValue[:len(proofValue)-1]
TrimV(sig) == sig.rs
\* common.Bytes2Hex and common.Hex2Bytes
Bytes2Hex(b) == [hex |-> b]
Hex2Bytes(s) == s.hex

\* crypto.VerifySignature(pubkey, hash, signature)
VerifySignature(pubkey, h, sig) == pubkey = FromECDSAPub(sig.key) /\ sig.h = h

RoundSecond(ms) == <<[wall |-> ((ms + 500) \div 1000) * 1000, mono |-> FALSE]>>

\* time.Now().UTC().Truncate(1 * time.Second), times in milliseconds
TruncateSecond(ms) == <<[wall |-> (ms \div 1000) * 1000, mono |-> FALSE]>>

\* ------------------------------------------------------ the command line
NoFile == <<>>
NoIssue == [signer |-> "nokey", out |-> NoFile, digest |-> Keccak256(<<>>)]

NoCli ==
    [cmd |-> "none", status |-> "", err |-> "", given |-> NoCredential,
     cred |-> NoCredential, digest |-> Keccak256(<<>>), sigChecks |-> 0,
     read |-> NoRead, subjectID |-> <<>>, claims |-> EmptyMap,
     args |-> <<>>, signs |-> 0, time |-> 0]

CliFatal(c, msg) == [c EXCEPT !.status = "fatal", !.err = msg]

\* A DID written as one token inside a JSON string.
DidSubj == DidGo(<<"s", "u", "b", "j">>)
Token(did) == IF did = DidSubj THEN <<"did:go:subj">> ELSE did

\* The --data arguments: none, or {"name":"<"}
DataName == <<"{", "\"", "name", "\"", ":", "\"", "<", "\"", "}">>

\* Further --data arguments: {"age":21}, {"id":"0","name":"<"} and a text
\* that is no JSON object.
DataAge == <<"{", "\"", "age", "\"", ":", "21", "}">>
DataWithID == <<"{", "\"", "id", "\"", ":", "\"", "0", "\"", ",",
                "\"", "name", "\"", ":", "\"", "<", "\"", "}">>
DataBad == <<"{", "\"", "age", "\"">>
NoDIDText == <<"s", "u", "b", "j">>

\* The command lines of SignClaim: id, type, issuer, subject, data, private key.
IssueInputs ==
    { <<"urn:1", "ProofOfAge", DidGo(IdAbc), DidSubj, DataAge, "k1">>,
      <<"urn:1", "ProofOfAge", DidGo(IdAbc), DidSubj, DataWithID, "k1">>,
      <<"urn:1", "ProofOfAge", DidGo(IdAbc), DidSubj, DataName, "k2">>,
      <<"urn:1", "ProofOfAge", DidOther, DidSubj, <<>>, "k1">>,
      <<"", "ProofOfAge", DidGo(IdAbc), DidSubj, DataAge, "k1">>,
      <<"urn:1", "", DidGo(IdAbc), DidSubj, DataAge, "k1">>,
      <<"urn:1", "ProofOfAge", <<>>, DidSubj, DataAge, "k1">>,
      <<"urn:1", "ProofOfAge", IdAbc, DidSubj, DataAge, "k1">>,
      <<"urn:1", "ProofOfAge", DidGo(IdAbc), <<>>, DataAge, "k1">>,
      <<"urn:1", "ProofOfAge", DidGo(IdAbc), NoDIDText, DataAge, "k1">>,
      <<"urn:1", "ProofOfAge", DidGo(IdAbc), DidSubj, DataAge, "nokey">>,
      <<"urn:1", "ProofOfAge", DidGo(IdAbc), DidSubj, DataBad, "k1">>,
      <<"urn:1", "ProofOfAge", IdAbc, NoDIDText, DataBad, "nokey">> }

\* The times at which these run, in milliseconds.
IssueTimes == {1700, 2999}

\* The command lines of SignClaim of the user who has credentials changed.
SignInputs ==
    { <<"urn:1", "ProofOfAge", DidGo(IdAbc), DidSubj, DataName, "k1">>,
      <<"urn:1", "ProofOfAge", IdAbc, DidSubj, DataName, "k1">> }

\* The command lines of CreateDID that anchor the document of an issuer.
IssuerInputs == { in \in CreateInputs : in[1] /\ in[2] = DidGo(IdAbc) /\ in[3] \in PrivateKeys }

\* The times at which SignClaim runs, in milliseconds.
SignTimes == {1700}

InvalidDIDUnchecked(id) == FALSE

\* _, err := did.Parse(id); err != nil
InvalidDID(id) == ~Parse(id).ok

NetworkUsedForIssuer(registryGiven, issuerID) ==
    ReadDIDDocument(registryGiven, issuerID, "ok", ErrorReply)

\* What SignClaim reads from the network: ctx and rpcURL are not used, no
\* call is made.
NetworkUsed(registryGiven, issuerID) == NoRead

MergeSubjectIDKeepingGiven(data, subjectID) ==
    IF StringOf(<<"id">>) \in DOMAIN data THEN data
    ELSE Put(data, StringOf(<<"id">>), JSONString(StringOf(Token(subjectID))))

\* subject["id"] = subjectID
MergeSubjectID(data, subjectID) ==
    Put(data, StringOf(<<"id">>), JSONString(StringOf(Token(subjectID))))

\* SignClaim: the credential printed, or the error that ends the process.
SignedCredential(id, typ, issuerID, subjectID, subjectJSON, privateKey, now) ==
    LET data == IF subjectJSON = <<>> THEN [ok |-> TRUE, map |-> EmptyMap]
                ELSE UnmarshalObject(subjectJSON)
        subject == MergeSubjectID(data.map, subjectID)
        cred == [NewVerifiableCredential EXCEPT
                    !.ID = id,
                    !.Type = Append(@, typ),
                    !.Issuer = issuerID,
                    !.IssuanceDate = now,
                    !.CredentialSubject = subject]
        h == Keccak256(EncodeCredential(cred))
        proofValue == TrimV(Sign(h, privateKey))
        signed == [cred EXCEPT !.Proof = << [Type |-> Secp256k1, Created |-> now,
                                             ProofValue |-> Bytes2Hex(proofValue)] >>]
        failed(msg) == [err |-> msg, cred |-> NoCredential, digest |-> Keccak256(<<>>),
                        signs |-> 0]
    IN  IF id = "" THEN failed("Credential ID required")
        ELSE IF typ = "" THEN failed("Credential type required")
        ELSE IF issuerID = <<>> THEN failed("Credential issuer DID required")
        ELSE IF InvalidDID(issuerID) THEN failed("Invalid credential issuer DID")
        ELSE IF subjectID = <<>> THEN failed("Credential subject DID required")
        ELSE IF InvalidDID(subjectID) THEN failed("Invalid credential subject DID")
        ELSE IF privateKey \notin PrivateKeys THEN failed("Cannot parse private key")
        ELSE IF ~data.ok THEN failed("Cannot parse subject JSON data")
        ELSE [err |-> "", cred |-> signed, digest |-> h, signs |-> 1]

\* web3 claim sign ... > file: the output of SignClaim becomes the credential
\* file; issue records the key, the digest signed and the output.
SignClaimFrom(inputs, times) ==
    /\ \E in \in inputs, ms \in times :
          LET s == SignedCredential(in[1], in[2], in[3], in[4], in[5], in[6], TruncateSecond(ms))
              c == [NoCli EXCEPT !.cmd = "sign", !.args = in, !.signs = s.signs,
                                 !.read = NetworkUsed(TRUE, in[3])]
          IN  IF s.err # ""
              THEN /\ cli' = CliFatal(c, s.err)
                   /\ UNCHANGED <<file, issue>>
              ELSE /\ cli' = [c EXCEPT !.status = "ok", !.cred = s.cred, !.digest = s.digest,
                                          !.time = ms]
                   /\ file' = << MarshalCredentialIndent(s.cred) >>
                   /\ issue' = [signer |-> in[6], out |-> << MarshalCredentialIndent(s.cred) >>,
                                digest |-> s.digest]
    /\ UNCHANGED <<registry, lastTx, store, clock, cr, regTxs, show>>

SignClaim == SignClaimFrom(SignInputs, SignTimes)

IssueClaim == SignClaimFrom(IssueInputs, IssueTimes)

\* The bytes a byte of the file may be changed into; a token of several bytes
\* becomes the token with one of its bytes changed.
Bytes == {"\"", "0", "C"}
Mutations(tok) ==
    CASE tok = "id"          -> {"iD"}
      [] tok = "name"        -> {"nbme"}
      [] tok = "did:go:subj" -> {"did:go:subk"}
      [] tok = "nl-tab"      -> {"nl-space"}
      [] OTHER               -> Bytes \ {tok}

\* Somebody changes one byte of credentialSubject in the file SignClaim wrote.
EditFile ==
    /\ file # NoFile
    /\ file = issue.out
    /\ \E i \in 1..Len(file[1].credentialSubject) :
          \E b \in Mutations(file[1].credentialSubject[i]) :
             file' = << [file[1] EXCEPT !.credentialSubject[i] = b] >>
    /\ cli' = [NoCli EXCEPT !.cmd = "edit"]
    /\ UNCHANGED <<registry, lastTx, store, clock, cr, regTxs, show, issue>>

\* Somebody removes the proof from the file SignClaim wrote (proof is optional
\* in the file: VerifiableCredential.Proof is a pointer).
DropProof ==
    /\ file # NoFile
    /\ file = issue.out
    /\ file' = << [file[1] EXCEPT !.proof = NoProof] >>
    /\ cli' = [NoCli EXCEPT !.cmd = "edit"]
    /\ UNCHANGED <<registry, lastTx, store, clock, cr, regTxs, show, issue>>

\* VerifyClaim, the loop over the issuer's public keys: the number of keys
\* tried with crypto.VerifySignature up to and including the first that
\* verifies; 0 when there is none to try.  Only Secp256k1 is supported.
KeyVerifiesAnyDigest(pub, h, proofValue) ==
    HexToBytes(pub.PublicKeyHex) = FromECDSAPub(Hex2Bytes(proofValue).key)

KeyVerifies(pub, h, proofValue) ==
    VerifySignature(HexToBytes(pub.PublicKeyHex), h, Hex2Bytes(proofValue))

IsCandidateAnyType(pub) == TRUE

\* if pub.Type != "Secp256k1VerificationKey2018" { continue }
IsCandidate(pub) == pub.Type = Secp256k1

Candidates(keys) == SelectSeq(keys, IsCandidate)

FirstVerifying(keys, h, proofValue) ==
    LET c == Candidates(keys)
    IN  IF \E i \in 1..Len(c) : KeyVerifies(c[i], h, proofValue)
        THEN CHOOSE i \in 1..Len(c) :
                /\ KeyVerifies(c[i], h, proofValue)
                /\ \A j \in 1..(i - 1) : ~KeyVerifies(c[j], h, proofValue)
        ELSE 0

\* "Extract subject & extract ID": subject is the map of cred itself.
ExtractSubjectID(cred) ==
    [cred EXCEPT !.CredentialSubject = Delete(@, StringOf(<<"id">>))]

SubjectIDOf(cred) ==
    IF StringOf(<<"id">>) \in DOMAIN cred.CredentialSubject
    THEN cred.CredentialSubject[StringOf(<<"id">>)] ELSE <<>>

KeepProof(cred) == cred

\* other := cred (a copy of the struct); other.Proof = nil
ClearProof(cred) == [cred EXCEPT !.Proof = NoProof]

ReadFailedIgnored(r) == FALSE

\* doc, err := readDIDDocument(...); if err != nil
ReadFailed(r) == r.err # ""

\* VerifyClaim once the issuer's document is read (r): the digest of the
\* credential without proof, the loop over the keys, the outcome printed.
VerifyKeys(c1, u, r) ==
    LET c2 == [c1 EXCEPT !.read = r]
        h  == Keccak256(EncodeCredential(ClearProof(u.cred)))
        c3 == [c2 EXCEPT !.digest = h]
        cand == Candidates(r.doc.PublicKeys)
        n  == FirstVerifying(r.doc.PublicKeys, h, u.cred.Proof[1].ProofValue)
    IN  IF ReadFailed(r) THEN CliFatal(c2, "Cannot read issuer DID document")
        ELSE IF cand = <<>> THEN [c3 EXCEPT !.status = "NOT VERIFIED"]
        ELSE IF u.cred.Proof = NoProof THEN [c3 EXCEPT !.status = "panic"]
        ELSE IF n = 0 THEN [c3 EXCEPT !.status = "NOT VERIFIED", !.sigChecks = Len(cand)]
        ELSE [c3 EXCEPT !.status = "VERIFIED", !.sigChecks = n,
                        !.cred = ExtractSubjectID(u.cred),
                        !.subjectID = SubjectIDOf(u.cred),
                        !.claims = ExtractSubjectID(u.cred).CredentialSubject]

\* VerifyClaim once the file is decoded (u): the issuer's document is read.
VerifyDecoded(c0, u, registryGiven, net, body) ==
    IF ~u.ok THEN CliFatal(c0, "Cannot decode credential")
    ELSE VerifyKeys([c0 EXCEPT !.given = u.cred, !.cred = u.cred], u,
                    ReadDIDDocument(registryGiven, u.cred.Issuer, net, body))

\* VerifyClaim on the file f: the outcome printed, and the values the function
\* holds when it ends.
VerifiedClaim(f, registryGiven, net, body) ==
    IF f = NoFile THEN CliFatal([NoCli EXCEPT !.cmd = "verify"], "Cannot read file")
    ELSE VerifyDecoded([NoCli EXCEPT !.cmd = "verify"], UnmarshalCredential(f[1]),
                       registryGiven, net, body)

\* The runs of VerifyClaim: registry address given, fate of the network calls.
VerifyRuns == { <<TRUE, net>> : net \in {"ok", "call", "get"} }

IssuerHash(f) ==
    IF f = NoFile THEN NoHash ELSE Lookup(Bytes32(Parse(f[1].issuer).ID)).hash

VerifyClaim ==
    /\ \E run \in VerifyRuns : \E body \in CatReplies(IssuerHash(file)) :
          cli' = VerifiedClaim(file, run[1], run[2], body)
    /\ UNCHANGED <<registry, lastTx, store, clock, cr, regTxs, show, file, issue>>

\* ------------------------------------------------------- other clients
\* Documents other clients of the registry anchor: one whose only key of the
\* first signer is of another type, and one with keys of several types.
OtherKeyType == "Ed25519VerificationKey2018"
KeyEntry(did, fragment, type, hex) ==
    [ID |-> did \o <<"#">> \o fragment, Type |-> type, Controller |-> did,
     PublicKeyHex |-> hex]
OtherDocuments ==
    { [NewDocument EXCEPT
          !.ID = DidGo(IdAbc),
          !.PublicKeys = << KeyEntry(DidGo(IdAbc), <<"1">>, OtherKeyType, ToHex(FromECDSAPub("k1"))) >>],
      [NewDocument EXCEPT
          !.ID = DidGo(IdAbc),
          !.PublicKeys = << KeyEntry(DidGo(IdAbc), <<"1">>, OtherKeyType, ToHex(FromECDSAPub("k1"))),
                            KeyEntry(DidGo(IdAbc), <<"2">>, Secp256k1, FromECDSAPub("k2")),
                            KeyEntry(DidGo(IdAbc), <<"3">>, Secp256k1, ToHex(FromECDSAPub("k1"))) >>] }

\* Somebody changes the type tag of the proof in the file SignClaim wrote.
RetypeProof ==
    /\ file # NoFile
    /\ file = issue.out
    /\ file' = << [file[1] EXCEPT !.proof[1].type = OtherKeyType] >>
    /\ cli' = [NoCli EXCEPT !.cmd = "edit"]
    /\ UNCHANGED <<registry, lastTx, store, clock, cr, regTxs, show, issue>>

\* Another client uploads a document and registers its hash.
AnchorOther ==
    /\ \E doc \in OtherDocuments :
          LET data == MarshalDocument(doc)
          IN  /\ store' = store \cup {data}
              /\ registry' = Register(registry, Bytes32(Parse(doc.ID).ID), HashOf(data),
                                      Address("other"))
              /\ lastTx' = [lastTx EXCEPT ![Bytes32(Parse(doc.ID).ID)] = 0]
    /\ UNCHANGED <<clock, cr, regTxs, show, file, issue, cli>>

\* Another client registers for did:go:abc the hash of content that is no
\* document; the content store holds that content or has never been given it.
AnchorForeign ==
    /\ \E stored \in BOOLEAN :
          /\ store' = IF stored THEN store \cup {RawReply} ELSE store
          /\ registry' = Register(registry, Bytes32(IdAbc), HashOf(RawReply),
                                  Address("other"))
          /\ lastTx' = [lastTx EXCEPT ![Bytes32(IdAbc)] = 0]
    /\ UNCHANGED <<clock, cr, regTxs, show, file, issue, cli>>

\* ---------------------------------------------------------- specification
vars == <<registry, lastTx, store, clock, cr, regTxs, show, file, issue, cli>>

Init ==
    /\ registry = [i \in Ids32 |-> NoEntry]
    /\ lastTx = [i \in Ids32 |-> 0]
    /\ store = {}
    /\ clock = 0
    /\ cr = [p \in Procs |-> IdleCreate]
    /\ regTxs = [p \in Procs |-> NoTx]
    /\ show = NoShow
    /\ file = NoFile
    /\ issue = NoIssue
    /\ cli = NoCli

\* CreateDID invocations of several users, step by step.
Next ==
    \/ \E p \in Procs : CreateStart(p)
    \/ \E p \in Procs : CreateUpload(p)
    \/ \E p \in Procs : CreateTransact(p)
    \/ \E p \in Procs : CreateWait(p)
    \/ \E i \in Procs : TxMine(i)

Spec == Init /\ [][Next]_vars

\* The same, the wait for the receipt ending: the context of WaitForReceipt
\* is done after 10 seconds at the latest.
SpecWait == Spec /\ \A p \in Procs : WF_vars(CreateWait(p))

\* The same invocations, interrupted by signals.
NextCancel ==
    \/ Next
    \/ \E p \in Procs : Interrupt(p)

SpecCancel == Init /\ [][NextCancel]_vars

\* One user anchoring documents and reading them back.
NextRead ==
    \/ CreateDIDRun(CreateInputs)
    \/ ShowDID
    \/ DIDOwner
    \/ DIDHash
    \/ AnchorForeign

SpecRead == Init /\ [][NextRead]_vars

\* One user issuing and verifying credentials whose issuers are anchored.
NextVC ==
    \/ CreateDIDRun(IssuerInputs)
    \/ AnchorOther
    \/ SignClaim
    \/ EditFile
    \/ DropProof
    \/ VerifyClaim

SpecVC == Init /\ [][NextVC]_vars

\* One user issuing credentials from many command lines and verifying them.
NextIssue ==
    \/ CreateDIDRun(IssuerInputs)
    \/ IssueClaim
    \/ RetypeProof
    \/ VerifyClaim

SpecIssue == Init /\ [][NextIssue]_vars

\* ------------------------------------------------------------------ claims
\* VerifyClaim has run to its end on the file as it is now.
Verified == cli.cmd = "verify" /\ file # NoFile

\* The failure the verifier reports: no key validated the signature, or the
\* issuer's document could not be read.
VerificationFailure(c) ==
    \/ c.status = "NOT VERIFIED"
    \/ c.status = "fatal" /\ c.err = "Cannot read issuer DID document"

\* The resolved document holds the public key of k under the type of the proof.
HoldsKeyOf(doc, k, proofType) ==
    \E i \in 1..Len(doc.PublicKeys) :
       /\ doc.PublicKeys[i].Type = proofType
       /\ HexToBytes(doc.PublicKeys[i].PublicKeyHex) = FromECDSAPub(k)

\* C1: a credential SignClaim wrote with key K, given unmodified to
\* VerifyClaim, the issuer's document having been read: it is reported VERIFIED
\* if and only if that document holds K's public key in an entry whose type is
\* the type of the credential's proof.
C1_SignThenVerify ==
    (Verified /\ file = issue.out /\ cli.read.err = "")
        => /\ cli.status \in {"VERIFIED", "NOT VERIFIED"}
           /\ cli.status = "VERIFIED"
                 <=> HoldsKeyOf(cli.read.doc, issue.signer, cli.given.Proof[1].Type)

\* C1: an unmodified credential has been verified with its signer's key, in a
\* document that holds more than that key.
C1_Witness ==
    /\ Verified /\ file = issue.out
    /\ cli.status = "VERIFIED"
    /\ Len(cli.read.doc.PublicKeys) > 1

\* One byte of credentialSubject was changed after SignClaim wrote the file.
Tampered ==
    /\ file # NoFile
    /\ file # issue.out
    /\ file = << [issue.out[1] EXCEPT !.credentialSubject = file[1].credentialSubject] >>

\* credentialSubject as SignClaim wrote it, and as the file has it now.
IssuedSubject == UnmarshalObject(issue.out[1].credentialSubject)
FileSubject == UnmarshalObject(file[1].credentialSubject)

\* C2 as stated: whatever byte of credentialSubject was changed, VerifyClaim
\* fails and never reports VERIFIED (an end on "Cannot decode credential" is
\* taken as a failure of the verification too).
C2_AnyByteTamperFails ==
    (Verified /\ Tampered)
        => /\ cli.status # "VERIFIED"
           /\ \/ VerificationFailure(cli)
              \/ cli.status = "fatal" /\ cli.err = "Cannot decode credential"

\* C2 as amended: a changed byte that changes the decoded credentialSubject
\* ends VerifyClaim with the verification failure; one that leaves no JSON
\* object ends it with the decoding error; a credential reported VERIFIED
\* decodes to the credentialSubject that was signed.
C2_TamperedValueFails ==
    (Verified /\ Tampered)
        => /\ ~FileSubject.ok
                => cli.status = "fatal" /\ cli.err = "Cannot decode credential"
           /\ (FileSubject.ok /\ FileSubject.map # IssuedSubject.map)
                => VerificationFailure(cli)
           /\ cli.status = "VERIFIED"
                => FileSubject.ok /\ FileSubject.map = IssuedSubject.map

\* C2: a changed byte changed the decoded credentialSubject of a credential
\* whose issuer's document holds the signer's key, and VerifyClaim said NOT
\* VERIFIED after checking the signature.
C2_Witness ==
    /\ Verified /\ Tampered
    /\ FileSubject.ok /\ FileSubject.map # IssuedSubject.map
    /\ cli.status = "NOT VERIFIED" /\ cli.sigChecks > 0
    /\ HoldsKeyOf(cli.read.doc, issue.signer, Secp256k1)

\* The hash the registry returned to ShowDID was empty.
ShowReadEmptyHash ==
    /\ show.cmd = "show"
    /\ show.out.reads = 1
    /\ show.out.err # "Cannot call the contract"
    /\ show.out.hash = NoHash

\* C3: resolving an identifier whose registry hash is empty fails: nothing is
\* fetched from the content store for the empty hash and no document is returned.
C3_UnanchoredNotFound ==
    ShowReadEmptyHash => (show.out.err # "" /\ show.out.fetches = 0)

ValidationErrors ==
    { "Registry contract address required", "DID required", "Invalid DID",
      "Only 'go' DID methods can be registered.", "ID must be less than 32 characters" }

NoNetworkCall(c) == c.uploads = 0 /\ c.reads = 0 /\ c.writes = 0

\* C4: a CreateDID invocation whose id is longer than 32 bytes ends with a
\* validation error and has made no upload and no registry call.
C4_OversizeRejectedOffline ==
    \A p \in Procs :
        (cr[p].pc # "idle" /\ Len(Parse(cr[p].raw).ID) > MaxDIDLength)
            => /\ cr[p].pc = "fatal"
               /\ cr[p].err \in ValidationErrors
               /\ NoNetworkCall(cr[p])
               /\ regTxs[p] = NoTx

C4_Witness ==
    \E p \in Procs :
        /\ cr[p].pc = "fatal"
        /\ cr[p].raw = DidGo(IdLongX)
        /\ cr[p].err = "ID must be less than 32 characters"

\* C5: every register transaction submitted by CreateDID is for an identifier of
\* method "go"; an invocation with another method ends in a validation error
\* before any upload or registry call; owner, hash and show accept an
\* identifier of another method.
C5_OnlyGoAnchored ==
    /\ \A p \in Procs : regTxs[p].status # "none" => regTxs[p].method = <<"g", "o">>
    /\ \A p \in Procs :
          (cr[p].pc # "idle" /\ Parse(cr[p].raw).ok /\ Parse(cr[p].raw).Method # <<"g", "o">>)
              => /\ cr[p].pc = "fatal"
                 /\ cr[p].err \in ValidationErrors
                 /\ NoNetworkCall(cr[p])
    /\ \A f \in {"owner", "hash"} :
          LET r == ReadRegistry(TRUE, DidOther, "ok", f)
          IN  r.err = "" /\ r.reads = 1
                 /\ r.owner = (IF f = "owner" THEN registry[Bytes32(IdAbc)].owner ELSE NoAddress)
                 /\ r.hash = (IF f = "hash" THEN registry[Bytes32(IdAbc)].hash ELSE NoHash)
    /\ \A body \in CatReplies(registry[Bytes32(IdAbc)].hash) :
          LET r == ReadDIDDocument(TRUE, DidOther, "ok", body)
          IN  r.reads = 1 /\ r.fetches = 1 /\ r.hash = registry[Bytes32(IdAbc)].hash

C5_Witness ==
    /\ \E p \in Procs : cr[p].pc = "fatal" /\ cr[p].raw = DidOther
    /\ \E p \in Procs : regTxs[p].status = "ok" /\ regTxs[p].id32 = Bytes32(IdAbc)

\* The identifier CreateDID was given for the transaction tx.
CreatedDID(tx) == tx.doc.ID

C7_LastConfirmedWins ==
    \A id32 \in Ids32 :
        IF lastTx[id32] = 0
        THEN registry[id32] = NoEntry
        ELSE LET tx == regTxs[lastTx[id32]]
             IN  /\ tx.status = "ok"
                 /\ registry[id32] = [hash |-> tx.hash, owner |-> tx.sender]
                 /\ tx.hash # NoHash
                      => \A body \in CatReplies(registry[id32].hash) :
                            LET r == ReadDIDDocument(TRUE, CreatedDID(tx), "ok", body)
                            IN  /\ r.err = ""
                                /\ MarshalDocument(r.doc) = MarshalDocument(tx.doc)

\* Two invocations for the same id, both confirmed, the one started first
\* confirmed last.
C7_Witness ==
    /\ regTxs[1].status = "ok" /\ regTxs[2].status = "ok"
    /\ regTxs[1].id32 = regTxs[2].id32
    /\ regTxs[1].hash # NoHash /\ regTxs[2].hash # NoHash
    /\ regTxs[1].hash # regTxs[2].hash
    /\ lastTx[regTxs[1].id32] = 1
    /\ cr[1].pc = "done" /\ cr[2].pc = "done"

\* C8: when VerifyClaim ends, the credential it decoded from the file is as it
\* was decoded: every key of credentialSubject, "id" too, and the proof.
C8_VerifyLeavesCredential ==
    Verified => cli.cred = cli.given

\* The digest of the credential without its proof.
DigestOf(cred) == Keccak256(EncodeCredential([cred EXCEPT !.Proof = NoProof]))

\* The positions of the keys of the supported type, and of those among them
\* that validate the proof value of cred.
Supported(keys) == { i \in 1..Len(keys) : keys[i].Type = Secp256k1 }
Validating(keys, cred) ==
    { i \in Supported(keys) :
        /\ cred.Proof # NoProof
        /\ VerifySignature(HexToBytes(keys[i].PublicKeyHex), DigestOf(cred),
                           Hex2Bytes(cred.Proof[1].ProofValue)) }

\* VerifyClaim decoded the credential and read the issuer's document.
ReachedKeys ==
    /\ Verified
    /\ cli.err \notin {"Cannot read file", "Cannot decode credential"}
    /\ cli.read.err = ""

\* C9: VerifyClaim reports VERIFIED only if a key of the supported type
\* validates the proof value against the digest of the credential without
\* proof; if none does, it reports the verification failure; keys of other
\* types are passed over without error, and no key after the first that
\* validates is tried.
C9_FirstSupportedKeyDecides ==
    ReachedKeys =>
        LET keys == cli.read.doc.PublicKeys
            good == Validating(keys, cli.given)
            first == CHOOSE i \in good : \A j \in good : i <= j
        IN  /\ cli.status = "VERIFIED" => good # {}
            /\ good = {} => cli.status = "NOT VERIFIED"
            /\ cli.status = "VERIFIED"
                  => cli.sigChecks = Cardinality({ j \in Supported(keys) : j <= first })
            /\ cli.status = "NOT VERIFIED"
                  => cli.sigChecks = Cardinality(Supported(keys))

\* C10: when reading the issuer's document fails, VerifyClaim ends with
\* "Cannot read issuer DID document" before the digest is computed, no
\* signature is checked and nothing is reported VERIFIED; the same holds of an
\* issuer that has no hash in the registry.
C10_ResolutionFailureFailsVerify ==
    /\ (Verified /\ cli.read.err # "")
          => /\ cli.status = "fatal" /\ cli.err = "Cannot read issuer DID document"
             /\ VerificationFailure(cli)
             /\ cli.sigChecks = 0
             /\ cli.digest = NoCli.digest
    /\ (Verified /\ cli.read.reads > 0 /\ cli.read.hash = NoHash)
          => /\ cli.status # "VERIFIED"
             /\ cli.sigChecks = 0

\* C10: VerifyClaim ended on a failed read of the document of an issuer whose
\* anchored document holds the signer's key.
C10_Witness ==
    /\ Verified /\ file = issue.out
    /\ cli.read.err # "" /\ cli.status = "fatal"
    /\ \E data \in store :
          /\ IssuerHash(file) = HashOf(data)
          /\ HoldsKeyOf(DecodeDocument(data).doc, issue.signer, Secp256k1)

\* SignClaim has printed a credential for the command line in cli.args.
Issued == cli.cmd = "sign" /\ cli.status = "ok"

\* The claims SignClaim was given with --data.
GivenClaims ==
    IF cli.args[5] = <<>> THEN EmptyMap ELSE UnmarshalObject(cli.args[5]).map

\* C11: in every credential SignClaim prints, credentialSubject["id"] is the
\* subject identifier of the command line, also when the claims given hold an
\* "id", and every other claim given is there with its value and nothing
\* else is; the file written decodes to the same credentialSubject.
C11_SubjectIDMerged ==
    Issued =>
        LET subject == cli.cred.CredentialSubject
            idKey == StringOf(<<"id">>)
        IN  /\ DOMAIN subject = DOMAIN GivenClaims \cup {idKey}
            /\ subject[idKey] = JSONString(StringOf(Token(cli.args[4])))
            /\ \A k \in DOMAIN GivenClaims \ {idKey} : subject[k] = GivenClaims[k]
            /\ UnmarshalObject(file[1].credentialSubject).map = subject
            /\ UnmarshalObject(EncodeObject(subject)).map = subject

\* C11: a credential was printed for claims that held an "id" of their own
\* and another claim.
C11_Witness ==
    /\ Issued
    /\ StringOf(<<"id">>) \in DOMAIN GivenClaims
    /\ GivenClaims[StringOf(<<"id">>)] # cli.cred.CredentialSubject[StringOf(<<"id">>)]
    /\ DOMAIN GivenClaims # {StringOf(<<"id">>)}

\* The errors of SignClaim's checks of its arguments.
IssueValidationErrors ==
    { "Credential ID required", "Credential type required",
      "Credential issuer DID required", "Invalid credential issuer DID",
      "Credential subject DID required", "Invalid credential subject DID" }

\* C12: when the issuer or the subject of the command line is missing or does
\* not parse as a DID, SignClaim ends with an error of its argument checks,
\* has signed nothing and prints no credential.
C12_IssueValidatesIdentifiers ==
    (cli.cmd = "sign" /\ \E i \in {3, 4} : cli.args[i] = <<>> \/ ~Parse(cli.args[i]).ok)
        => /\ cli.status = "fatal"
           /\ cli.err \in IssueValidationErrors
           /\ cli.signs = 0
           /\ cli.cred = NoCredential
           /\ cli.digest = NoCli.digest

\* C12: SignClaim ended on an issuer that is no DID, for a command line whose
\* key and claims are not well-formed either.
C12_Witness ==
    /\ cli.cmd = "sign" /\ cli.status = "fatal"
    /\ cli.err = "Invalid credential issuer DID"
    /\ cli.args[6] \notin PrivateKeys

\* A step in which SignClaim ran.
SignStep == cli'.cmd = "sign" /\ (cli' # cli \/ file' # file)

\* C13: a run of SignClaim, whatever its command line and its end, makes no
\* registry call and no content-store call and leaves the registry and the
\* content store as they were.
C13_IssueUsesNoNetwork ==
    [][SignStep => /\ cli'.read.reads = 0 /\ cli'.read.fetches = 0
                   /\ cli'.read = NoRead
                   /\ registry' = registry /\ lastTx' = lastTx /\ regTxs' = regTxs
                   /\ store' = store]_vars

\* C13: SignClaim has printed a credential while the registry held a hash for
\* its issuer and the content store the document.
C13_Witness ==
    /\ Issued
    /\ Lookup(Bytes32(Parse(cli.args[3]).ID)).hash # NoHash
    /\ store # {}

\* C14: a CreateDID that has submitted its transaction waits: it reports
\* success only with the receipt of the confirmed transaction, "Cannot get
\* the receipt" ends only an invocation that has submitted one, and no
\* invocation waits forever (an invocation that has left the wait does not
\* come back to it).
C14_WaitsForConfirmation ==
    /\ [](\A p \in Procs : cr[p].pc = "done" => regTxs[p].status \in {"ok", "reverted"})
    /\ [](\A p \in Procs : cr[p].err = "Cannot get the receipt"
                               => cr[p].pc = "fatal" /\ regTxs[p].status # "none")
    /\ []<>(\A p \in Procs : cr[p].pc # "submitted")

\* C14: one invocation ended with the receipt, another ended on the wait
\* while its transaction was unconfirmed.
C14_Witness ==
    /\ \E p \in Procs : cr[p].pc = "done" /\ regTxs[p].status = "ok"
    /\ \E p \in Procs : /\ cr[p].pc = "fatal" /\ cr[p].err = "Cannot get the receipt"
                          /\ regTxs[p].status = "pending"

\* C15: once the signal has cancelled the context of an invocation, the call
\* it is in is aborted: its next step ends it with an error, and nothing is
\* uploaded and no hash is returned to it any more.
C15_CancelAbortsCalls ==
    [][\A p \in Procs :
          (cr[p].ctx = "cancelled" /\ cr'[p] # cr[p])
              => /\ cr'[p].pc = "fatal"
                 /\ cr'[p].hash = cr[p].hash
                 /\ store' = store]_vars

\* C16: no operation ends the process: no create invocation is ended by a
\* fatal log call, and neither issue nor verify ends with a fatal log call
\* or with the exit that follows NOT VERIFIED.
C16_NoOperationExits ==
    /\ \A p \in Procs : cr[p].pc # "fatal"
    /\ cli.status \notin {"fatal", "NOT VERIFIED"}

\* A ShowDID that read from the registry a hash the content store does not
\* know, or the hash of stored content that is no JSON.
ShowReadBadContent ==
    /\ show.cmd = "show" /\ show.out.reads = 1
    /\ show.out.hash # NoHash
    /\ show.out.hash[1] \notin store \/ show.out.hash[1].kind # "json"

\* C17: resolving an identifier whose registered hash is unknown to the content
\* store, or names content that is no JSON document, ends with an error: the
\* store's error reply is never decoded and returned as a document.
C17_BadContentFailsResolve ==
    ShowReadBadContent => show.out.err # ""

\* C18: a CreateDID invocation uploads only a document it has built for an
\* identifier it has validated, submits its register transaction only after
\* its one upload has returned without error, registers exactly the hash that
\* upload returned (the hash of the serialized document, which the store then
\* holds), and submits no transaction when the upload fails.
C18_UploadThenRegister ==
    \A p \in Procs :
        /\ cr[p].uploads > 0
              => /\ Parse(cr[p].raw).ok
                 /\ cr[p].doc # ZeroDocument
        /\ (cr[p].writes > 0 \/ regTxs[p] # NoTx)
              => /\ cr[p].uploads = 1
                 /\ cr[p].err # "IPFSUpload failed"
        /\ regTxs[p] # NoTx
              => /\ regTxs[p].hash = cr[p].hash
                 /\ regTxs[p].hash # NoHash
                       => /\ regTxs[p].hash = HashOf(MarshalDocument(cr[p].doc))
                          /\ MarshalDocument(cr[p].doc) \in store
        /\ cr[p].err = "IPFSUpload failed"
              => /\ regTxs[p] = NoTx
                 /\ cr[p].writes = 0

C18_Witness ==
    \E p, q \in Procs :
        /\ regTxs[p].status = "pending" /\ regTxs[p].hash # NoHash
        /\ cr[p].pc = "submitted"
        /\ cr[q].err = "IPFSUpload failed" /\ cr[q].uploads = 1

\* The positions of the keys whose type is the type tag of the proof of cred.
KeysOfProofType(keys, cred) ==
    { i \in 1..Len(keys) : keys[i].Type = cred.Proof[1].Type }

\* C19: a credential with a proof whose type tag is the type of no key of the
\* issuer's document has no candidate key: VerifyClaim checks no signature and
\* reports the verification failure.
C19_CandidatesMatchProofType ==
    (ReachedKeys /\ cli.given.Proof # NoProof
                 /\ KeysOfProofType(cli.read.doc.PublicKeys, cli.given) = {})
        => /\ cli.status = "NOT VERIFIED"
           /\ cli.sigChecks = 0

\* C20: VerifyClaim, given the file SignClaim wrote unmodified and having read
\* the issuer's document, computes over the credential without its proof the
\* digest SignClaim signed; SignClaim took that digest of the credential while
\* it had no proof and attached the proof afterwards.
C20_VerifyRecomputesIssueDigest ==
    /\ Issued
          => /\ cli.cred.Proof # NoProof
             /\ cli.digest = Keccak256(EncodeCredential([cli.cred EXCEPT !.Proof = NoProof]))
             /\ issue.digest = cli.digest
    /\ (ReachedKeys /\ file = issue.out)
          => /\ cli.given.Proof # NoProof
             /\ cli.digest = issue.digest

C20_Witness ==
    /\ ReachedKeys /\ file = issue.out
    /\ cli.status = "VERIFIED"
    /\ cli.digest = issue.digest
    /\ Cardinality(DOMAIN cli.given.CredentialSubject) > 1

\* The document a CreateDID invocation has built, once it has one.
Built(p) == cr[p].doc # ZeroDocument

\* C21: the document CreateDID builds for the identifier d and the key K has
\* the context ContextV1, the id d as a string, created equal to updated and
\* set, one public key (id: d with the fragment owner, type
\* Secp256k1VerificationKey2018, controller d, the hex encoding of K's public
\* key and no other encoding) and one authentication, the id of that key; the
\* content uploaded is that document.
C21_DocumentAsBuilt ==
    \A p \in Procs :
        /\ cr[p].pc \in {"built", "uploaded", "submitted", "done"} => Built(p)
        /\ Built(p) =>
              LET d   == Parse(cr[p].raw)
                  doc == cr[p].doc
                  key == doc.PublicKeys[1]
              IN  /\ doc.Context = ContextV1
                  /\ doc.ID = String(d)
                  /\ d.Fragment = <<>> => doc.ID = cr[p].raw
                  /\ doc.Created = doc.Updated /\ doc.Created # NoTime
                  /\ doc.Created = TimeNow(cr[p].inv)
                  /\ Len(doc.PublicKeys) = 1
                  /\ DOMAIN key = {"ID", "Type", "Controller", "PublicKeyHex"}
                  /\ Parse(key.ID) = [d EXCEPT !.Fragment = OwnerFragment]
                  /\ d.Fragment = <<>> => key.ID = cr[p].raw \o <<"#">> \o OwnerFragment
                  /\ key.Type = Secp256k1
                  /\ key.Controller = doc.ID
                  /\ key.PublicKeyHex = ToHex(FromECDSAPub(cr[p].key))
                  /\ doc.Authentications = << key.ID >>
                  /\ cr[p].hash # NoHash
                        => /\ cr[p].hash = HashOf(MarshalDocument(doc))
                           /\ MarshalDocument(doc).obj.Created = MarshalDocument(doc).obj.Updated

C21_Witness ==
    \E p \in Procs :
        /\ cr[p].pc = "done" /\ cr[p].key = "k2"
        /\ cr[p].hash # NoHash
        /\ Len(cr[p].doc.Authentications) = 1

\* An invocation that has ended, with success or with an error.
Ended(p) == cr[p].pc \in {"done", "fatal"}

\* C22: a CreateDID invocation uploads its content at most once and submits
\* its register transaction at most once; once it has ended, with an error or
\* a timeout of the wait included, it does nothing more: it uploads nothing
\* and its transaction is not submitted again (it can only be confirmed).
C22_NoRetry ==
    /\ [](\A p \in Procs : cr[p].uploads <= 1 /\ cr[p].writes <= 1)
    /\ [][\A p \in Procs :
            /\ cr'[p].uploads >= cr[p].uploads /\ cr'[p].writes >= cr[p].writes
            /\ Ended(p)
                  => /\ cr'[p] = cr[p]
                     /\ regTxs'[p] = [regTxs[p] EXCEPT !.status = regTxs'[p].status]
            /\ regTxs[p] # NoTx
                  => regTxs'[p] = [regTxs[p] EXCEPT !.status = regTxs'[p].status]]_vars

C22_Witness ==
    \E p \in Procs :
        /\ cr[p].pc = "fatal" /\ cr[p].err = "Cannot get the receipt"
        /\ cr[p].uploads = 1 /\ cr[p].writes = 1
        /\ regTxs[p].status = "ok"

C24_NoEmptyHashAnchored ==
    \A p \in Procs :
        /\ regTxs[p] # NoTx => regTxs[p].hash # NoHash
        /\ cr[p].pc \in {"submitted", "done"} => cr[p].hash # NoHash

\* C25: at the step in which a CreateDID invocation reports the successful
\* registration, its register transaction has been confirmed with success,
\* and, unless a later transaction for the same id has been confirmed since,
\* the registry holds for the id the hash reported and the address of the
\* signer's key.
C25_ReportedMeansRegistered ==
    [][\A p \in Procs :
          (cr[p].pc = "submitted" /\ cr'[p].pc = "done")
              => /\ regTxs[p].status = "ok"
                 /\ lastTx[regTxs[p].id32] = p
                       => Lookup(regTxs[p].id32) =
                             [hash |-> cr[p].hash, owner |-> Address(cr[p].key)]]_vars

\* C26: a document ShowDID returns for the identifier s is the document of s:
\* its id names the method and the id of s (an empty document returned for an
\* identifier that has none is not counted here).
C26_ResolvedDocumentIsOfRequest ==
    (show.cmd = "show" /\ show.out.err = "" /\ show.out.doc # ZeroDocument)
        => /\ Parse(show.out.doc.ID).Method = Parse(show.raw).Method
           /\ Parse(show.out.doc.ID).ID = Parse(show.raw).ID

\* C27: CreateDID ends with the length error exactly for the identifiers whose
\* id is longer than MaxDIDLength bytes: a did:go identifier whose id is at
\* most MaxDIDLength bytes passes the length check.
C27_LengthCheckIsOfID ==
    \A p \in Procs :
        LET d == Parse(cr[p].raw)
        IN  (cr[p].pc # "idle" /\ d.ok /\ MethodAllowed(d))
                => (cr[p].err = "ID must be less than 32 characters"
                       <=> Len(d.ID) > MaxDIDLength)

\* C28: VerifyClaim on a credential without proof, the issuer's document
\* read, ends with the verification failure whatever keys the document holds:
\* it does not crash and does not report VERIFIED.
C28_NoProofNotVerified ==
    (ReachedKeys /\ cli.given.Proof = NoProof)
        => /\ cli.status = "NOT VERIFIED"
           /\ cli.sigChecks = 0

\* The registry entry of some id was written by the transaction of p.
WroteRegistry(p) == \E id32 \in Ids32 : lastTx[id32] = p

\* C29 as stated: a CreateDID invocation that ended with an error, the
\* timeout of the wait included, has not changed the registry, then or later.
C29_ErrorLeavesRegistry ==
    \A p \in Procs : cr[p].pc = "fatal" => ~WroteRegistry(p)

\* C29 as amended: an invocation that ended with an error other than the
\* failed wait has submitted no transaction and never changes the registry;
\* one that ended on the failed wait has submitted its transaction, and the
\* registry changes through it only if it is confirmed, into the hash and the
\* sender of that transaction.
C29_ErrorBeforeSubmitLeavesRegistry ==
    \A p \in Procs :
        cr[p].pc = "fatal" =>
           /\ cr[p].err # "Cannot get the receipt"
                 => regTxs[p] = NoTx /\ ~WroteRegistry(p)
           /\ cr[p].err = "Cannot get the receipt"
                 => /\ regTxs[p] # NoTx
                    /\ WroteRegistry(p)
                          => /\ regTxs[p].status = "ok"
                             /\ Lookup(regTxs[p].id32) =
                                   [hash |-> regTxs[p].hash, owner |-> regTxs[p].sender]

C29_Witness ==
    \E p, q \in Procs :
        /\ cr[p].pc = "fatal" /\ cr[p].err = "Cannot get the receipt"
        /\ WroteRegistry(p)
        /\ cr[q].pc = "fatal" /\ cr[q].err = "Cannot register DID identifier"

====
